---- MODULE Spec2Model ----
(***************************************************************************)
(* A model of booksdata.parsing.BookScraper: the crawl of one category     *)
(* (_collect_paths), the detail fetch (scrape) and the export (save_data). *)
(*                                                                         *)
(* Text is modelled as a sequence of one-character strings, so that the    *)
(* slicing, case folding, decimal formatting and concatenation of the      *)
(* source are computed and not assumed.  A markup is modelled by the       *)
(* elements the selectors of the source pick from it.  A fetch is an       *)
(* asyncio task: it is issued by the code and completes later, with a body *)
(* or an error chosen by the origin.  The print of a successful fetch      *)
(* (line 74) is no diagnostic and is left out.                             *)
(***************************************************************************)
EXTENDS Integers, Sequences, FiniteSets, TLC

VARIABLES
    pc,               \* where the invocation is: idle, awaiting a fetch ("index", "first") or a cohort
                      \* ("pages", "details"), back in scrape ("collected"), "returned", "raised", "saved"
    category,         \* _collect_paths: the category argument, read at line 254 only
    category_paths,   \* _collect_paths: the dict parsed from the index page (line 254)
    path_to_category, \* _collect_paths: the resolved path
    markup,           \* _collect_paths: the first listing page
    results,          \* _collect_paths: the accumulator
    page_count,       \* _collect_paths: the page numbers of the cohort
    page_tasks,       \* _collect_paths: tasks, one per page number
    paths,            \* scrape: the list _collect_paths returned
    detail_tasks,     \* scrape: the tasks of the TaskGroup, one per element of paths
    tasks,            \* scrape: the dict from URL to task (the task's index in detail_tasks)
    requests,         \* the paths requested so far, in the order issued
    diagnostics,      \* the diagnostics printed so far
    ret,              \* what scrape returned
    exc,              \* what scrape raised
    saved,            \* what save_data did
    _session,         \* self._session: None, or the ClientSession of __aenter__
    _connector,       \* self._connector: None, or the TCPConnector of __init__, open or closed
    log,              \* the entries, exits and fetches made on the instance, in order
    arg,              \* the argument of a call of a normalization function
    out               \* what that call returned or raised

scrape_vars == <<pc, category, category_paths, path_to_category, markup, results, page_count,
                 page_tasks, paths, detail_tasks, tasks, requests, diagnostics,
                 ret, exc, saved>>

session_vars == <<_session, _connector, log>>

call_vars == <<arg, out>>

vars == <<scrape_vars, session_vars, call_vars>>

(***************************************************************************)
(* Bounds of the model.                                                    *)
(***************************************************************************)
\* the longest category name, requested or displayed
MaxNameLen == 2
\* the most category anchors of an index page
MaxAnchors == 1
\* the largest trailing digit of a page total, so the largest listing cohort
\* has MaxPages - 1 members
MaxPages == 3
\* the largest page total an indicator shows
MaxTotal == 12
\* the most product anchors of a category, over all its listing pages
MaxProducts == 2

(***************************************************************************)
(* Text.                                                                   *)
(***************************************************************************)
Min(a, b) == IF a < b THEN a ELSE b

Max(a, b) == IF a < b THEN b ELSE a

UpperLetters == <<"A", "B", "C", "D", "E", "F", "G", "H", "I", "J", "K", "L", "M",
                  "N", "O", "P", "Q", "R", "S", "T", "U", "V", "W", "X", "Y", "Z">>

LowerLetters == <<"a", "b", "c", "d", "e", "f", "g", "h", "i", "j", "k", "l", "m",
                  "n", "o", "p", "q", "r", "s", "t", "u", "v", "w", "x", "y", "z">>

DigitChars == <<"0", "1", "2", "3", "4", "5", "6", "7", "8", "9">>

\* str.lower() of one character
LowerChar(c) ==
    IF \E i \in DOMAIN UpperLetters : UpperLetters[i] = c
    THEN LowerLetters[CHOOSE i \in DOMAIN UpperLetters : UpperLetters[i] = c]
    ELSE c

\* a lookup that compares the name as written: lower() left out
Lower_as_written(s) == s

\* str.lower()
Lower(s) == [i \in DOMAIN s |-> LowerChar(s[i])]

\* s[start:stop] for start >= 0; a negative stop counts from the end
PySlice(s, start, stop) ==
    LET hi == IF stop < 0 THEN Max(Len(s) + stop, 0) ELSE Min(stop, Len(s))
    IN  SubSeq(s, start + 1, hi)

\* s[start:]
PySliceFrom(s, start) == SubSeq(s, start + 1, Len(s))

\* the decimal numeral of n, as an f-string formats it
RECURSIVE Decimal(_)
Decimal(n) ==
    IF n < 10 THEN <<DigitChars[n + 1]>>
    ELSE Decimal(n \div 10) \o <<DigitChars[(n % 10) + 1]>>

IsDigit(c) == \E i \in DOMAIN DigitChars : DigitChars[i] = c

\* int(c) of a one-character string that is a digit
IntOfDigit(c) == (CHOOSE i \in DOMAIN DigitChars : DigitChars[i] = c) - 1

\* the sequences over S of length lo..hi
SeqsOf(S, lo, hi) == UNION {[1..n -> S] : n \in lo..hi}

(***************************************************************************)
(* A dict, in insertion order: a sequence of [k, v].  Setting a key that   *)
(* is present replaces its value and keeps its place.                      *)
(***************************************************************************)
DictHas(d, k) == \E i \in DOMAIN d : d[i].k = k

DictGet(d, k) == d[CHOOSE i \in DOMAIN d : d[i].k = k].v

DictSet(d, k, v) ==
    IF DictHas(d, k)
    THEN [i \in DOMAIN d |-> IF d[i].k = k THEN [k |-> k, v |-> v] ELSE d[i]]
    ELSE Append(d, [k |-> k, v |-> v])

(***************************************************************************)
(* The fixed texts of the source and of the origin's layout.               *)
(***************************************************************************)
\* "category/"
S_category == <<"c", "a", "t", "e", "g", "o", "r", "y", "/">>

\* "/index.html"
S_index == <<"/", "i", "n", "d", "e", "x", ".", "h", "t", "m", "l">>

\* "/page-"
S_page == <<"/", "p", "a", "g", "e", "-">>

\* ".html"
S_html == <<".", "h", "t", "m", "l">>

\* "books"
S_books == <<"b", "o", "o", "k", "s">>

\* "../"
S_up == <<".", ".", "/">>

\* "Page 1 of "
S_page_of == <<"P", "a", "g", "e", " ", "1", " ", "o", "f", " ">>

\* the path of the catalog index page, "category/books_1/index.html"
IndexPath == S_category \o S_books \o <<"_", "1">> \o S_index

\* f"category/{path_to_category}/index.html"
FirstPagePath(ptc) == S_category \o ptc \o S_index

\* f"category/{path_to_category}/page-{page_number}.html"
PagePath(ptc, page_number) == S_category \o ptc \o S_page \o Decimal(page_number) \o S_html

\* the base URL of the configuration
base_url == <<"h", "t", "t", "p", "s", ":", "/", "/", "s", "/">>

(***************************************************************************)
(* The origin: what a fetch can bring back.                                *)
(***************************************************************************)
\* the characters of a category name
NameChars == {"a", "A"}

\* category names, as requested and as displayed
Names == SeqsOf(NameChars, 1, MaxNameLen)

\* "../books/<slug>/index.html"
CategoryHref(slug) == S_up \o S_books \o <<"/">> \o slug \o S_index

\* the hrefs of category anchors: two of the expected shape and a short one, "../books/"
CategoryHrefs == {CategoryHref(<<"x">>), CategoryHref(<<"y">>), S_up \o S_books \o <<"/">>}

\* an element of select("ul a[href^='../books/']")
CategoryAnchors == [text : Names, href : CategoryHrefs]

\* the index page: its category anchors, in document order
IndexPages == SeqsOf(CategoryAnchors, 0, MaxAnchors)

\* "../../../<slug>"
ProductHref(slug) == S_up \o S_up \o S_up \o slug

\* an element of select("article.product_pod > h3 > a"): with an href or without
ProductAnchors ==
    {[has_href |-> TRUE, href |-> ProductHref(<<"p">>)],
     [has_href |-> TRUE, href |-> ProductHref(<<"q">>)],
     [has_href |-> FALSE, href |-> <<>>]}

NoPager == [present |-> FALSE, text |-> <<>>]

\* page totals an indicator shows: those whose trailing digit is at most MaxPages
PageTotals == {n \in 1..MaxTotal : n % 10 <= MaxPages}

\* select_one("ul.pager li.current"): absent, "Page 1 of <total>", or "Page 1 of ?"
Pagers ==
    {NoPager}
    \cup {[present |-> TRUE, text |-> S_page_of \o Decimal(n)] : n \in PageTotals}
    \cup {[present |-> TRUE, text |-> S_page_of \o <<"?">>]}

\* a first listing page: its product anchors in document order and its indicator
ListingPages == [products : SeqsOf(ProductAnchors, 0, MaxProducts), pager : Pagers]

\* a later listing page; only its product anchors are read (line 287)
CohortPages == [products : SeqsOf(ProductAnchors, 0, MaxProducts), pager : {NoPager}]

NoListing == [products |-> <<>>, pager |-> NoPager]

\* what _request_to_page raises (lines 61-65): raise_for_status, the timeout
FetchErrors == {"ClientResponseError", "ConnectionTimeoutError"}

(***************************************************************************)
(* The page parsers.                                                       *)
(***************************************************************************)
RECURSIVE CategoryDict(_, _)
CategoryDict(anchors, d) ==
    IF anchors = <<>> THEN d
    ELSE CategoryDict(Tail(anchors),
                      DictSet(d, Lower(Head(anchors).text), PySlice(Head(anchors).href, 3, -11)))

\* _parse_category_paths: lower-cased text -> href[3:-11], later anchors overwriting
_parse_category_paths(m) == CategoryDict(m, <<>>)

\* dict.get(key) is falsy: the key is absent, or its value is the empty string
LookupFails(d, key) == ~DictHas(d, key) \/ DictGet(d, key) = <<>>

\* element.get("href")[9:] raises TypeError when an anchor has no href
ProductPathsRaises(m) == \E i \in DOMAIN m.products : ~m.products[i].has_href

\* _parse_product_paths: href[9:] of every product anchor, in document order
_parse_product_paths(m) == [i \in DOMAIN m.products |-> PySliceFrom(m.products[i].href, 9)]

\* range(a, b), as the sequence of its members
Range(a, b) == [i \in 1..Max(b - a, 0) |-> a + i - 1]

\* int(text[-1]) raises ValueError when the last character is no digit
PageCountRaises(m) == m.pager.present /\ ~IsDigit(m.pager.text[Len(m.pager.text)])

\* a page count that, without an indicator, asks for page 1 again
_get_page_count_from_one(m) ==
    IF m.pager.present
    THEN Range(2, IntOfDigit(m.pager.text[Len(m.pager.text)]) + 1)
    ELSE Range(1, 2)

\* _get_page_count: range(2, int(text[-1]) + 1), or range(0) without an indicator
_get_page_count(m) ==
    IF m.pager.present
    THEN Range(2, IntOfDigit(m.pager.text[Len(m.pager.text)]) + 1)
    ELSE Range(0, 0)

(***************************************************************************)
(* Detail pages and _parse_product_info.                                   *)
(***************************************************************************)
\* the class tokens of the star-rating element, ["star-rating", "Three"]
StarThree == <<<<"s", "t", "a", "r", "-", "r", "a", "t", "i", "n", "g">>, <<"T", "h", "r", "e", "e">>>>

\* the rows of the attribute table: header cell and data cell
TableRows ==
    <<[th |-> "UPC", td |-> <<"u", "1">>],
      [th |-> "Product Type", td |-> <<"B">>],
      [th |-> "Price (excl. tax)", td |-> <<"£", "5">>],
      [th |-> "Price (incl. tax)", td |-> <<"£", "5">>],
      [th |-> "Tax", td |-> <<"£", "0">>],
      [th |-> "Availability", td |-> <<"(", "2", ")">>],
      [th |-> "Number of reviews", td |-> <<"0">>]>>

\* a detail page with title, rating and attribute table
FullPage ==
    [has_h1 |-> TRUE, title |-> <<"T">>, has_star |-> TRUE, star_class |-> StarThree,
     has_table |-> TRUE, table |-> TableRows]

\* a detail page without attribute table
BarePage == [FullPage EXCEPT !.has_table = FALSE, !.table = <<>>]

\* a detail page without the title element
UntitledPage == [BarePage EXCEPT !.has_h1 = FALSE, !.title = <<>>]

\* a detail page whose title element holds no text
EmptyTitlePage == [BarePage EXCEPT !.title = <<>>]

DetailPages == {FullPage, BarePage, UntitledPage, EmptyTitlePage}

NoDetail == [BarePage EXCEPT !.has_h1 = FALSE, !.title = <<>>, !.has_star = FALSE, !.star_class = <<>>]

\* the exception _parse_product_info raises on m, or "none": select_one(...) is None
\* (AttributeError), or the class list has no second token (IndexError)
ProductInfoRaises(m) ==
    IF ~m.has_h1 THEN "AttributeError"
    ELSE IF m.title = <<>> THEN "none"
    ELSE IF ~m.has_star THEN "AttributeError"
    ELSE IF Len(m.star_class) < 2 THEN "IndexError"
    ELSE "none"

RECURSIVE DictUpdate(_, _)
\* {**d, **{th: td for each row}}
DictUpdate(d, rows) ==
    IF rows = <<>> THEN d
    ELSE DictUpdate(DictSet(d, Head(rows).th, Head(rows).td), Tail(rows))

\* _parse_product_info, where it does not raise: None for an empty title, else the
\* three base keys, merged with the rows of the attribute table if there is one
_parse_product_info(m, url) ==
    IF m.title = <<>> THEN [none |-> TRUE, rec |-> <<>>]
    ELSE [none |-> FALSE,
          rec |-> DictUpdate(<<[k |-> "Product name", v |-> m.title],
                               [k |-> "URL", v |-> url],
                               [k |-> "Rating", v |-> m.star_class[2]]>>,
                             IF m.has_table THEN m.table ELSE <<>>)]

(***************************************************************************)
(* Tasks of a TaskGroup and the except* clauses.                           *)
(***************************************************************************)
PendingPage == [st |-> "pending", body |-> NoListing, exc |-> "none"]

PendingDetail == [st |-> "pending", body |-> NoDetail, exc |-> "none"]

\* a join that is left as soon as one member has failed
AllTerminated_or_failed(ts) ==
    (\A i \in DOMAIN ts : ts[i].st # "pending") \/ (\E i \in DOMAIN ts : ts[i].st = "failed")

\* the exit of "async with TaskGroup()" waits for every member: none is pending
AllTerminated(ts) == \A i \in DOMAIN ts : ts[i].st # "pending"

AnyFailed(ts) == \E i \in DOMAIN ts : ts[i].st = "failed"

\* the exceptions of the group the TaskGroup raises
GroupExceptions(ts) == {ts[i].exc : i \in {j \in DOMAIN ts : ts[j].st = "failed"}}

\* the classes an exception is an instance of (aiohttp's and the builtin hierarchy)
ClassesOf(e) ==
    CASE e = "ClientResponseError" -> {"ClientResponseError", "ClientError", "Exception"}
      [] e = "ConnectionTimeoutError" ->
            {"ConnectionTimeoutError", "ServerTimeoutError", "ServerConnectionError",
             "ClientConnectionError", "ClientError", "TimeoutError", "OSError", "Exception"}
      [] e = "TimeoutError" -> {"TimeoutError", "OSError", "Exception"}
      [] OTHER -> {e, "Exception"}

\* the clauses without those of ClientError and of Exception
Handlers_without_http ==
    <<[classes |-> {"ConnectionTimeoutError"}, diagnostic |-> "The timeout is reached"],
      [classes |-> {"AttributeError", "IndexError"}, diagnostic |-> "The parsing result in the error"],
      [classes |-> {"KeyboardInterrupt"}, diagnostic |-> "The user interrupts the execution"],
      [classes |-> {"SystemExit"}, diagnostic |-> "The system exit cause the error"]>>

\* the except* clauses of _collect_paths and of scrape, in order
Handlers ==
    <<[classes |-> {"ClientError"}, diagnostic |-> "The HTTP Error"],
      [classes |-> {"ConnectionTimeoutError"}, diagnostic |-> "The timeout is reached"],
      [classes |-> {"AttributeError", "IndexError"}, diagnostic |-> "The parsing result in the error"],
      [classes |-> {"KeyboardInterrupt"}, diagnostic |-> "The user interrupts the execution"],
      [classes |-> {"SystemExit"}, diagnostic |-> "The system exit cause the error"],
      [classes |-> {"Exception"}, diagnostic |-> "The error"]>>

RECURSIVE ExceptStar(_, _)
\* what the clauses print for a group: each clause takes the members that are
\* instances of its classes and prints once if it took any; the rest go on
ExceptStar(handlers, group) ==
    IF handlers = <<>> THEN <<>>
    ELSE LET taken == {e \in group : ClassesOf(e) \cap Head(handlers).classes # {}}
         IN  (IF taken # {} THEN <<Head(handlers).diagnostic>> ELSE <<>>)
             \o ExceptStar(Tail(handlers), group \ taken)

RECURSIVE Unhandled(_, _)
\* the members of a group no clause takes: they are raised again
Unhandled(handlers, group) ==
    IF handlers = <<>> THEN group
    ELSE Unhandled(Tail(handlers),
                   {e \in group : ClassesOf(e) \cap Head(handlers).classes = {}})

\* the product anchors received so far by the tasks of a listing cohort
RECURSIVE Received(_)
Received(ts) ==
    IF ts = <<>> THEN 0 ELSE Len(Head(ts).body.products) + Received(Tail(ts))

\* results.extend(_parse_product_paths(task.result())) for the tasks in order
RECURSIVE Extended(_, _)
Extended(res, ts) ==
    IF ts = <<>> THEN res
    ELSE Extended(res \o _parse_product_paths(Head(ts).body), Tail(ts))

\* the tasks that completed with a body
Finished(ts) == SelectSeq(ts, LAMBDA t : t.st = "done")

\* an accumulator that takes the paths of the finished members of a failed cohort
CohortPaths_of_finished(res, ts) == Extended(res, Finished(ts))

\* the accumulator after the TaskGroup of _collect_paths (lines 262-287), where no
\* parse raises: untouched if a member failed, else extended with every page's paths
CohortPaths(res, ts) == IF AnyFailed(ts) THEN res ELSE Extended(res, ts)

\* the first task whose result _parse_product_paths raises on
FirstBadPage(ts) ==
    CHOOSE i \in DOMAIN ts :
        /\ ProductPathsRaises(ts[i].body)
        /\ \A j \in 1..(i - 1) : ~ProductPathsRaises(ts[j].body)

\* {base_url + path : task for path in paths}: a later task of an equal path
\* replaces the earlier one under the same key
RECURSIVE TaskDict(_, _, _)
TaskDict(ps, i, d) ==
    IF i > Len(ps) THEN d ELSE TaskDict(ps, i + 1, DictSet(d, base_url \o ps[i], i))

(***************************************************************************)
(* The state machine.                                                      *)
(***************************************************************************)
NoError == [type |-> "none", msg |-> "none"]

NoReturn == [kind |-> "none", list |-> <<>>]

NotSaved ==
    [state |-> "none", fmt |-> "none", value |-> "none", rows |-> <<>>, steps |-> <<>>,
     written |-> "none", exc |-> NoError]

\* a ClientSession: the connector it holds ("own": the one it made for itself,
\* "shared": self._connector, "None": dropped by close()) and the calls of close() on it
NewSession(connector) ==
    [connector |-> IF connector = "None" THEN "own" ELSE "shared", closes |-> 0]

\* self._session is None
NoSession == [connector |-> "no session", closes |-> 0]

\* no argument of a normalization function
NoArg == [kind |-> "none", value |-> <<>>]

\* no call of a normalization function
NoCall == [fn |-> "none", kind |-> "none", dtype |-> "none", value |-> <<>>]

\* no scrape under way: the locals of save_data, scrape and _collect_paths unset
NotScraping ==
    /\ pc = "idle"
    /\ category = <<>>
    /\ category_paths = <<>>
    /\ path_to_category = <<>>
    /\ markup = NoListing
    /\ results = <<>>
    /\ page_count = <<>>
    /\ page_tasks = <<>>
    /\ paths = <<>>
    /\ detail_tasks = <<>>
    /\ tasks = <<>>
    /\ requests = <<>>
    /\ diagnostics = <<>>
    /\ ret = NoReturn
    /\ exc = NoError
    /\ saved = NotSaved

\* the scraper of the test (lines 5-6): built with no connector of its own and
\* entered; save_data is called inside the scope
Init ==
    /\ NotScraping
    /\ _connector = "None"
    /\ _session = NewSession("None")
    /\ log = <<>>
    /\ arg = NoArg
    /\ out = NoCall

\* an exception leaves _collect_paths and scrape: nothing else changes
Raise(type, msg) ==
    /\ pc' = "raised"
    /\ exc' = [type |-> type, msg |-> msg]

\* a return that first requests again the pages whose fetch failed
CollectReturns_retrying(m, res, diags) ==
    /\ pc' = "collected"
    /\ markup' = m
    /\ results' = res
    /\ paths' = res
    /\ diagnostics' = IF res = <<>>
                      THEN Append(diags, "Paths to products of the specified category are not found")
                      ELSE diags
    /\ category' = <<>>
    /\ category_paths' = <<>>
    /\ requests' = requests \o [i \in 1..Len(SelectSeq(page_tasks, LAMBDA t : t.st = "failed")) |->
                                   PagePath(path_to_category, 2)]
    /\ UNCHANGED <<path_to_category, page_count, page_tasks, detail_tasks, tasks,
                   ret, exc, saved>>

\* a return that prints nothing for an empty accumulator
CollectReturns_silent(m, res, diags) ==
    /\ pc' = "collected"
    /\ markup' = m
    /\ results' = res
    /\ paths' = res
    /\ diagnostics' = diags
    /\ category' = <<>>
    /\ category_paths' = <<>>
    /\ UNCHANGED <<path_to_category, page_count, page_tasks, detail_tasks, tasks,
                   requests, ret, exc, saved>>

\* _collect_paths, lines 288-290: the diagnostic of an empty accumulator and the
\* return of the accumulator to scrape (line 337)
CollectReturns(m, res, diags) ==
    /\ pc' = "collected"
    /\ markup' = m
    /\ results' = res
    /\ paths' = res
    /\ diagnostics' = IF res = <<>>
                      THEN Append(diags, "Paths to products of the specified category are not found")
                      ELSE diags
    /\ category' = <<>>
    /\ category_paths' = <<>>
    /\ UNCHANGED <<path_to_category, page_count, page_tasks, detail_tasks, tasks,
                   requests, ret, exc, saved>>

\* scrape, from "if paths:" (line 339) to the launch of the detail cohort (line 342)
\* or the return of None; the locals of _collect_paths are gone with its frame
ScrapeContinues ==
    /\ pc = "collected"
    /\ UNCHANGED <<session_vars, call_vars>>
    /\ path_to_category' = <<>>
    /\ markup' = NoListing
    /\ results' = <<>>
    /\ page_count' = <<>>
    /\ page_tasks' = <<>>
    /\ IF paths # <<>>
       THEN /\ pc' = "details"
            /\ detail_tasks' = [i \in DOMAIN paths |-> PendingDetail]
            /\ tasks' = TaskDict(paths, 1, <<>>)
            /\ requests' = requests \o paths
            /\ ret' = ret
       ELSE /\ pc' = "returned"
            /\ ret' = [kind |-> "None", list |-> <<>>]
            /\ UNCHANGED <<detail_tasks, tasks, requests>>
    /\ UNCHANGED <<category, category_paths, paths, diagnostics, exc, saved>>

\* scrape(category) is called: _collect_paths requests the index page (line 254)
Scrape(c) ==
    /\ pc = "idle"
    /\ UNCHANGED <<session_vars, call_vars>>
    /\ pc' = "index"
    /\ category' = c
    /\ requests' = Append(requests, IndexPath)
    /\ UNCHANGED <<category_paths, path_to_category, markup, results, page_count, page_tasks,
                   paths, detail_tasks, tasks, diagnostics, ret, exc, saved>>

\* the request of the index page fails: the exception leaves scrape (no try around line 254)
IndexFails(e) ==
    /\ pc = "index"
    /\ UNCHANGED <<session_vars, call_vars>>
    /\ Raise(e, "fetch")
    /\ UNCHANGED <<category, category_paths, path_to_category, markup, results, page_count,
                   page_tasks, paths, detail_tasks, tasks, requests, diagnostics, ret, saved>>

\* a lookup that requests the first listing page before it looks at the path
IndexResponse_requesting_first(m) ==
    /\ pc = "index"
    /\ UNCHANGED <<session_vars, call_vars>>
    /\ LET d == _parse_category_paths(m)
           key == Lower(category)
           ptc == IF DictHas(d, key) THEN DictGet(d, key) ELSE <<>>
       IN  /\ category_paths' = d
           /\ requests' = Append(requests, FirstPagePath(ptc))
           /\ IF LookupFails(d, key)
              THEN /\ Raise("ValueError", "Not found the category")
                   /\ UNCHANGED path_to_category
              ELSE /\ pc' = "first"
                   /\ path_to_category' = ptc
                   /\ exc' = exc
    /\ UNCHANGED <<category, markup, results, page_count, page_tasks, paths, detail_tasks,
                   tasks, diagnostics, ret, saved>>

\* the index page arrives: the category is looked up (lines 254-255) and the first
\* listing page is requested (line 257)
IndexResponse(m) ==
    /\ pc = "index"
    /\ UNCHANGED <<session_vars, call_vars>>
    /\ LET d == _parse_category_paths(m)
           key == Lower(category)
       IN  /\ category_paths' = d
           /\ IF LookupFails(d, key)
              THEN /\ Raise("ValueError", "Not found the category")
                   /\ UNCHANGED <<path_to_category, requests>>
              ELSE /\ pc' = "first"
                   /\ path_to_category' = DictGet(d, key)
                   /\ requests' = Append(requests, FirstPagePath(DictGet(d, key)))
                   /\ exc' = exc
    /\ UNCHANGED <<category, markup, results, page_count, page_tasks, paths, detail_tasks,
                   tasks, diagnostics, ret, saved>>

\* the request of the first listing page fails: the exception leaves scrape (line 257)
FirstPageFails(e) ==
    /\ pc = "first"
    /\ UNCHANGED <<session_vars, call_vars>>
    /\ Raise(e, "fetch")
    /\ UNCHANGED <<category, category_paths, path_to_category, markup, results, page_count,
                   page_tasks, paths, detail_tasks, tasks, requests, diagnostics, ret, saved>>

\* the first listing page arrives (lines 257-265): its product paths start the
\* accumulator, the page count is read, and the cohort of the pages is launched, or,
\* with no page to fetch, _collect_paths returns; the category and the dict of the
\* lookup, dead since line 254, are dropped here
FirstPageResponse(m) ==
    /\ pc = "first"
    /\ UNCHANGED <<session_vars, call_vars>>
    /\ IF ProductPathsRaises(m)
       THEN /\ Raise("TypeError", "href")
            /\ UNCHANGED <<category, category_paths, path_to_category, markup, results,
                           page_count, page_tasks, paths, detail_tasks, tasks, requests,
                           diagnostics, ret, saved>>
       ELSE IF PageCountRaises(m)
       THEN /\ Raise("ValueError", "int")
            /\ markup' = m
            /\ results' = _parse_product_paths(m)
            /\ UNCHANGED <<category, category_paths, path_to_category, page_count,
                           page_tasks, paths, detail_tasks, tasks, requests, diagnostics,
                           ret, saved>>
       ELSE IF _get_page_count(m) # <<>>
       THEN /\ pc' = "pages"
            /\ markup' = m
            /\ results' = _parse_product_paths(m)
            /\ page_count' = _get_page_count(m)
            /\ page_tasks' = [i \in DOMAIN _get_page_count(m) |-> PendingPage]
            /\ requests' = requests \o [i \in DOMAIN _get_page_count(m) |->
                                           PagePath(path_to_category, _get_page_count(m)[i])]
            /\ category' = <<>>
            /\ category_paths' = <<>>
            /\ UNCHANGED <<path_to_category, paths, detail_tasks, tasks,
                           diagnostics, ret, exc, saved>>
       ELSE CollectReturns(m, _parse_product_paths(m), diagnostics)

\* a fetch of the listing cohort completes with a body
PageFetched(i, m) ==
    /\ pc = "pages"
    /\ UNCHANGED <<session_vars, call_vars>>
    /\ i \in DOMAIN page_tasks
    /\ page_tasks[i].st = "pending"
    /\ Len(results) + Received(page_tasks) + Len(m.products) <= MaxProducts
    /\ page_tasks' = [page_tasks EXCEPT ![i] = [st |-> "done", body |-> m, exc |-> "none"]]
    /\ UNCHANGED <<pc, category, category_paths, path_to_category, markup, results, page_count,
                   paths, detail_tasks, tasks, requests, diagnostics, ret, exc, saved>>

\* a fetch of the listing cohort fails
PageFailed(i, e) ==
    /\ pc = "pages"
    /\ UNCHANGED <<session_vars, call_vars>>
    /\ i \in DOMAIN page_tasks
    /\ page_tasks[i].st = "pending"
    /\ page_tasks' = [page_tasks EXCEPT ![i] = [st |-> "failed", body |-> NoListing, exc |-> e]]
    /\ UNCHANGED <<pc, category, category_paths, path_to_category, markup, results, page_count,
                   paths, detail_tasks, tasks, requests, diagnostics, ret, exc, saved>>

\* a pending fetch of the listing cohort is cancelled: the TaskGroup cancels the
\* members left once a member has failed
PageCancelled(i) ==
    /\ pc = "pages"
    /\ UNCHANGED <<session_vars, call_vars>>
    /\ i \in DOMAIN page_tasks
    /\ page_tasks[i].st = "pending"
    /\ AnyFailed(page_tasks)
    /\ page_tasks' = [page_tasks EXCEPT ![i] = [st |-> "cancelled", body |-> NoListing, exc |-> "none"]]
    /\ UNCHANGED <<pc, category, category_paths, path_to_category, markup, results, page_count,
                   paths, detail_tasks, tasks, requests, diagnostics, ret, exc, saved>>

\* the TaskGroup of _collect_paths is left (lines 267-290): with a failed member the
\* except* clauses print and the accumulator stays (what no clause takes is raised
\* again); else every result is parsed and appended, outside the try
PagesJoin ==
    /\ pc = "pages"
    /\ UNCHANGED <<session_vars, call_vars>>
    /\ AllTerminated(page_tasks)
    /\ IF AnyFailed(page_tasks) /\ Unhandled(Handlers, GroupExceptions(page_tasks)) # {}
       THEN /\ Raise("ExceptionGroup", "unhandled")
            /\ diagnostics' = diagnostics \o ExceptStar(Handlers, GroupExceptions(page_tasks))
            /\ UNCHANGED <<category, category_paths, path_to_category, markup, results,
                           page_count, page_tasks, paths, detail_tasks, tasks, requests,
                           ret, saved>>
       ELSE IF AnyFailed(page_tasks)
       THEN CollectReturns(markup, CohortPaths(results, page_tasks),
                           diagnostics \o ExceptStar(Handlers, GroupExceptions(page_tasks)))
       ELSE IF \E i \in DOMAIN page_tasks : ProductPathsRaises(page_tasks[i].body)
       THEN /\ Raise("TypeError", "href")
            /\ results' = Extended(results, SubSeq(page_tasks, 1, FirstBadPage(page_tasks) - 1))
            /\ UNCHANGED <<category, category_paths, path_to_category, markup,
                           page_count, page_tasks, paths, detail_tasks, tasks, requests,
                           diagnostics, ret, saved>>
       ELSE CollectReturns(markup, CohortPaths(results, page_tasks), diagnostics)

\* a fetch of the detail cohort completes with a body
DetailFetched(i, m) ==
    /\ pc = "details"
    /\ UNCHANGED <<session_vars, call_vars>>
    /\ i \in DOMAIN detail_tasks
    /\ detail_tasks[i].st = "pending"
    /\ detail_tasks' = [detail_tasks EXCEPT ![i] = [st |-> "done", body |-> m, exc |-> "none"]]
    /\ UNCHANGED <<pc, category, category_paths, path_to_category, markup, results, page_count,
                   page_tasks, paths, tasks, requests, diagnostics, ret, exc, saved>>

\* a fetch of the detail cohort fails
DetailFailed(i, e) ==
    /\ pc = "details"
    /\ UNCHANGED <<session_vars, call_vars>>
    /\ i \in DOMAIN detail_tasks
    /\ detail_tasks[i].st = "pending"
    /\ detail_tasks' = [detail_tasks EXCEPT ![i] = [st |-> "failed", body |-> NoDetail, exc |-> e]]
    /\ UNCHANGED <<pc, category, category_paths, path_to_category, markup, results, page_count,
                   page_tasks, paths, tasks, requests, diagnostics, ret, exc, saved>>

\* a pending fetch of the detail cohort is cancelled, once a member has failed
DetailCancelled(i) ==
    /\ pc = "details"
    /\ UNCHANGED <<session_vars, call_vars>>
    /\ i \in DOMAIN detail_tasks
    /\ detail_tasks[i].st = "pending"
    /\ AnyFailed(detail_tasks)
    /\ detail_tasks' = [detail_tasks EXCEPT ![i] = [st |-> "cancelled", body |-> NoDetail, exc |-> "none"]]
    /\ UNCHANGED <<pc, category, category_paths, path_to_category, markup, results, page_count,
                   page_tasks, paths, tasks, requests, diagnostics, ret, exc, saved>>

\* the exception the list comprehension of line 363 raises, or "none": that of the
\* first entry of the dict whose page _parse_product_info raises on
RECURSIVE RecordsRaise(_, _)
RecordsRaise(d, ts) ==
    IF d = <<>> THEN "none"
    ELSE IF ProductInfoRaises(ts[Head(d).v].body) # "none"
    THEN ProductInfoRaises(ts[Head(d).v].body)
    ELSE RecordsRaise(Tail(d), ts)

\* [self._parse_product_info(task.result(), url) for url, task in tasks.items()]
Records(d, ts) == [i \in DOMAIN d |-> _parse_product_info(ts[d[i].v].body, d[i].k)]

\* a scrape that returns the records of the finished members of a failed cohort
Returned_of_finished(d, ts) ==
    [kind |-> "list",
     list |-> Records(SelectSeq(d, LAMBDA e : /\ ts[e.v].st = "done"
                                              /\ ProductInfoRaises(ts[e.v].body) = "none"), ts)]

\* what scrape returns after its TaskGroup (lines 340-363), where no parse raises:
\* None if a member failed, else the list of the records
Returned(d, ts) ==
    IF AnyFailed(ts) THEN [kind |-> "None", list |-> <<>>]
    ELSE [kind |-> "list", list |-> Records(d, ts)]

\* the TaskGroup of scrape is left (lines 344-363): with a failed member the except*
\* clauses print and scrape returns None; else every entry of the dict is parsed,
\* outside the try, and the list is returned
DetailsJoin ==
    /\ pc = "details"
    /\ UNCHANGED <<session_vars, call_vars>>
    /\ AllTerminated(detail_tasks)
    /\ IF AnyFailed(detail_tasks) /\ Unhandled(Handlers, GroupExceptions(detail_tasks)) # {}
       THEN /\ Raise("ExceptionGroup", "unhandled")
            /\ diagnostics' = diagnostics \o ExceptStar(Handlers, GroupExceptions(detail_tasks))
            /\ ret' = ret
       ELSE IF AnyFailed(detail_tasks)
       THEN /\ pc' = "returned"
            /\ diagnostics' = diagnostics \o ExceptStar(Handlers, GroupExceptions(detail_tasks))
            /\ ret' = Returned(tasks, detail_tasks)
            /\ exc' = exc
       ELSE IF RecordsRaise(tasks, detail_tasks) # "none"
       THEN /\ Raise(RecordsRaise(tasks, detail_tasks), "select_one")
            /\ UNCHANGED <<diagnostics, ret>>
       ELSE /\ pc' = "returned"
            /\ ret' = Returned(tasks, detail_tasks)
            /\ UNCHANGED <<diagnostics, exc>>
    /\ UNCHANGED <<category, category_paths, path_to_category, markup, results, page_count,
                   page_tasks, paths, detail_tasks, tasks, requests, saved>>

(***************************************************************************)
(* save_data: scrape, then the table.  Its fmt and its toggles are read    *)
(* only once scrape has returned (lines 451-480), and are drawn there.     *)
(* The locals of scrape and of _collect_paths are gone with their frames.  *)
(***************************************************************************)
Formats == {"df", "csv", "excel", "json"}

\* the toggles of save_data: the defaults, none, the rating alone
Toggles ==
    {[rating_as_float |-> TRUE, parse_currency |-> TRUE, parse_prices |-> TRUE,
      parse_product_availability |-> TRUE],
     [rating_as_float |-> FALSE, parse_currency |-> FALSE, parse_prices |-> FALSE,
      parse_product_availability |-> FALSE],
     [rating_as_float |-> TRUE, parse_currency |-> FALSE, parse_prices |-> FALSE,
      parse_product_availability |-> FALSE]}

\* "three"
S_three == <<"t", "h", "r", "e", "e">>

\* the words _convert_rating matches, in the order of its cases
RatingWords ==
    <<<<"o", "n", "e">>, <<"t", "w", "o">>, S_three, <<"f", "o", "u", "r">>, <<"f", "i", "v", "e">>>>

\* a match on the rating as written: lower() left out
ConvertRatingRaises_as_written(rating) == \A i \in DOMAIN RatingWords : RatingWords[i] # rating

\* _convert_rating raises ValueError on a string that matches no case
ConvertRatingRaises(rating) == \A i \in DOMAIN RatingWords : RatingWords[i] # Lower(rating)

\* _convert_rating: 1.0 .. 5.0, as the integers 1 .. 5
_convert_rating(rating) == CHOOSE i \in DOMAIN RatingWords : RatingWords[i] = Lower(rating)

\* DataFrame(data) raises AttributeError when the first element is a dict and a
\* later one is None (pandas reads the keys of every element)
FrameRaises(data) == ~data[1].none /\ \E i \in DOMAIN data : data[i].none

\* the columns of DataFrame(data): the keys of its records; with None first, the
\* elements are the cells of one column, named 0
Columns(data) ==
    IF data[1].none THEN {"0"}
    ELSE UNION {{data[i].rec[j].k : j \in DOMAIN data[i].rec} : i \in DOMAIN data}

PriceColumns == {"Price (excl. tax)", "Price (incl. tax)", "Tax"}

\* the normalization steps the toggles ask for, in the order of lines 460-470
Steps(o) ==
    (IF o.rating_as_float THEN <<"Rating">> ELSE <<>>)
    \o (IF o.parse_currency THEN <<"Currency">> ELSE <<>>)
    \o (IF o.parse_prices THEN <<"Prices">> ELSE <<>>)
    \o (IF o.parse_product_availability THEN <<"Availability">> ELSE <<>>)

\* the exception a normalization step raises on the table, or "none": a rating
\* that is no rating word, or a column the step reads that the table lacks
StepRaises(step, data) ==
    CASE step = "Rating" ->
            IF "Rating" \notin Columns(data) THEN "KeyError"
            ELSE IF \E i \in DOMAIN data : ConvertRatingRaises(DictGet(data[i].rec, "Rating"))
            THEN "ValueError" ELSE "none"
      [] step = "Currency" ->
            IF "Price (incl. tax)" \notin Columns(data) THEN "ValueError" ELSE "none"
      [] step = "Prices" ->
            IF PriceColumns \cap Columns(data) = {} THEN "ValueError"
            ELSE IF ~(PriceColumns \subseteq Columns(data)) THEN "KeyError"
            ELSE "none"
      [] step = "Availability" ->
            IF "Availability" \notin Columns(data) THEN "ValueError" ELSE "none"

\* the steps that run before one raises, and all of them if none does
RECURSIVE StepsRun(_, _)
StepsRun(steps, data) ==
    IF steps = <<>> \/ StepRaises(Head(steps), data) # "none" THEN <<>>
    ELSE <<Head(steps)>> \o StepsRun(Tail(steps), data)

\* the locals of _collect_paths and of scrape, once scrape is over
FramesGone ==
    /\ category' = <<>>
    /\ category_paths' = <<>>
    /\ path_to_category' = <<>>
    /\ markup' = NoListing
    /\ results' = <<>>
    /\ page_count' = <<>>
    /\ page_tasks' = <<>>
    /\ detail_tasks' = <<>>
    /\ tasks' = <<>>

\* save_data after scrape has raised: the exception passes through (line 451)
SaveDataPropagates(fmt) ==
    /\ pc = "raised"
    /\ UNCHANGED <<session_vars, call_vars>>
    /\ pc' = "saved"
    /\ saved' = [NotSaved EXCEPT !.state = "raised", !.fmt = fmt, !.exc = exc]
    /\ FramesGone
    /\ UNCHANGED <<paths, requests, diagnostics, ret, exc>>

\* lines 451-453: the empty table save_data returns for no data
EmptyTable(fmt) == [NotSaved EXCEPT !.state = "returned", !.fmt = fmt, !.value = "DataFrame"]

\* lines 455-480: the table of the records, the steps the toggles ask for, and the
\* format; an exception of DataFrame(data) or of a step ends save_data there
Table(fmt, o, data) ==
    LET ran == StepsRun(Steps(o), data)
        df == [NotSaved EXCEPT !.fmt = fmt, !.rows = data, !.steps = ran]
    IN  IF FrameRaises(data)
        THEN [NotSaved EXCEPT !.state = "raised", !.fmt = fmt,
                              !.exc = [type |-> "AttributeError", msg |-> "DataFrame"]]
        ELSE IF Len(ran) < Len(Steps(o))
        THEN [df EXCEPT !.state = "raised",
                        !.exc = [type |-> StepRaises(Steps(o)[Len(ran) + 1], data),
                                 msg |-> Steps(o)[Len(ran) + 1]]]
        ELSE CASE fmt = "df" -> [df EXCEPT !.state = "returned", !.value = "DataFrame"]
               [] fmt = "csv" -> [df EXCEPT !.state = "returned", !.value = "None", !.written = "csv"]
               [] fmt = "excel" -> [df EXCEPT !.state = "returned", !.value = "None", !.written = "excel"]
               [] OTHER -> [df EXCEPT !.state = "raised",
                                      !.exc = [type |-> "ValueError", msg |-> "Unsupported format"]]

\* a save_data that looks at the format before it looks at the data
Saved_format_first(fmt, o, r) ==
    IF fmt \notin {"df", "csv", "excel"}
    THEN [NotSaved EXCEPT !.state = "raised", !.fmt = fmt,
                          !.exc = [type |-> "ValueError", msg |-> "Unsupported format"]]
    ELSE IF r.kind = "None" \/ r.list = <<>> THEN EmptyTable(fmt)
    ELSE Table(fmt, o, r.list)

\* what save_data does with what scrape returned (lines 451-480)
Saved(fmt, o, r) ==
    IF r.kind = "None" \/ r.list = <<>> THEN EmptyTable(fmt) ELSE Table(fmt, o, r.list)

\* save_data after scrape has returned (lines 451-480): the diagnostic and an empty
\* table for no data; else the table, its steps and the format
SaveData(fmt, o) ==
    /\ pc = "returned"
    /\ UNCHANGED <<session_vars, call_vars>>
    /\ pc' = "saved"
    /\ diagnostics' = IF ret.kind = "None" \/ ret.list = <<>>
                      THEN Append(diagnostics, "The scrape() method didn't return data")
                      ELSE diagnostics
    /\ saved' = Saved(fmt, o, ret)
    /\ FramesGone
    /\ UNCHANGED <<paths, requests, ret, exc>>

(***************************************************************************)
(* The session of an instance: __aenter__, __aexit__ and a fetch between   *)
(* them.  ClientSession.closed is true of a session that holds no          *)
(* connector or a closed one; close() closes the connector the session     *)
(* holds and drops it; a request on a closed session raises RuntimeError.  *)
(***************************************************************************)
\* the entries of the log at most
MaxEvents == 4

\* how a scope body ends: normally, with an exception, cancelled
ScopeEnds == {"success", "failure", "cancelled"}

\* ClientSession.closed
Closed(session, connector) ==
    \/ session.connector = "None"
    \/ session.connector = "shared" /\ connector = "closed"

RECURSIVE Depth(_)
\* the scopes entered and not yet left
Depth(l) ==
    IF l = <<>> THEN 0
    ELSE Depth(SubSeq(l, 1, Len(l) - 1))
         + (CASE l[Len(l)].op = "enter" -> 1 [] l[Len(l)].op = "exit" -> -1 [] OTHER -> 0)

\* an instance as __init__ leaves it (lines 29-33): with a connector of its own
\* or without, as connector_settings and name_dns_servers say, and no session
Constructed ==
    /\ _connector \in {"None", "open"}
    /\ _session = NoSession
    /\ log = <<>>

\* __aenter__ (lines 35-38): a new ClientSession on self._connector when there is
\* no session or a closed one
Enter ==
    /\ Len(log) < MaxEvents
    /\ _session' = IF _session = NoSession \/ Closed(_session, _connector)
                   THEN NewSession(_connector)
                   ELSE _session
    /\ log' = Append(log, [op |-> "enter", end |-> "none", did |-> IF _session = NoSession \/ Closed(_session, _connector)
                                                   THEN "ClientSession" ELSE "none"])
    /\ UNCHANGED <<_connector, scrape_vars, call_vars>>

\* __aexit__ (lines 40-42), whatever ended the scope body (exc_type is not read):
\* close() on a session that is not closed, the print for one that is
Exit(end) ==
    /\ Len(log) < MaxEvents
    /\ Depth(log) > 0
    /\ IF _session = NoSession
       THEN /\ log' = Append(log, [op |-> "exit", end |-> end, did |-> "none"])
            /\ UNCHANGED <<_session, _connector>>
       ELSE IF Closed(_session, _connector)
       THEN /\ log' = Append(log, [op |-> "exit", end |-> end, did |-> "ClientSession have already closed"])
            /\ UNCHANGED <<_session, _connector>>
       ELSE /\ log' = Append(log, [op |-> "exit", end |-> end, did |-> "close"])
            /\ _session' = [connector |-> "None", closes |-> _session.closes + 1]
            /\ _connector' = IF _session.connector = "shared" THEN "closed" ELSE _connector
    /\ UNCHANGED <<scrape_vars, call_vars>>

\* _request_to_page inside a scope (line 72): session.get raises RuntimeError on a
\* closed session
Fetch ==
    /\ Len(log) < MaxEvents
    /\ Depth(log) > 0
    /\ _session # NoSession
    /\ log' = Append(log, [op |-> "fetch", end |-> "none", did |-> IF Closed(_session, _connector)
                                                   THEN "RuntimeError" ELSE "response"])
    /\ UNCHANGED <<_session, _connector, scrape_vars, call_vars>>

SessionInit ==
    /\ NotScraping
    /\ Constructed
    /\ arg = NoArg
    /\ out = NoCall

SessionNext ==
    \/ Enter
    \/ \E end \in ScopeEnds : Exit(end)
    \/ Fetch

SessionSpec == SessionInit /\ [][SessionNext]_vars

(***************************************************************************)
(* The normalization functions, each called once on an argument.  A cell   *)
(* of a DataFrame is a text or the missing value (NaN); a column read by   *)
(* _parse_prices is a field of the rows.                                   *)
(***************************************************************************)
\* the rows of a DataFrame at most
MaxRows == 1

NaN == [nan |-> TRUE, text |-> <<>>]

Text(t) == [nan |-> FALSE, text |-> t]

\* texts of a price cell: "£5.0", "Free", "fREE", "N", "1..", "$5£"
PriceTexts ==
    {<<"£", "5", ".", "0">>, <<"F", "r", "e", "e">>, <<"f", "R", "E", "E">>, <<"N">>,
     <<"1", ".", ".">>, <<"$", "5", "£">>}

\* the cells of "Price (incl. tax)": a text or the missing value
InclCells == {Text(t) : t \in PriceTexts} \cup {NaN}

\* the cells of "Price (excl. tax)" and of "Tax"
OtherCells == {Text(<<"£", "5", ".", "0">>), Text(<<"N">>), NaN}

\* the DataFrames with the three price columns and 1..MaxRows rows
Frames == SeqsOf([excl : OtherCells, incl : InclCells, tax : OtherCells], 1, MaxRows)

\* the words of the first pattern of _parse_prices, "(?i)(Free|Give Away|Gratis|No charge)"
PriceSynonyms ==
    <<<<"f", "r", "e", "e">>, <<"g", "i", "v", "e", " ", "a", "w", "a", "y">>,
      <<"g", "r", "a", "t", "i", "s">>, <<"n", "o", " ", "c", "h", "a", "r", "g", "e">>>>

\* a word of the alternation matches s at position i, whatever the letter case
MatchesAt(s, i, w) == i + Len(w) - 1 <= Len(s) /\ Lower(SubSeq(s, i, i + Len(w) - 1)) = w

RECURSIVE Substitute(_, _, _, _)
\* re.sub of the alternation of words by repl, from position i on
Substitute(s, i, words, repl) ==
    IF i > Len(s) THEN <<>>
    ELSE IF \E k \in DOMAIN words : MatchesAt(s, i, words[k])
    THEN LET k == CHOOSE k \in DOMAIN words :
                      /\ MatchesAt(s, i, words[k])
                      /\ \A j \in 1..(k - 1) : ~MatchesAt(s, i, words[j])
         IN  repl \o Substitute(s, i + Len(words[k]), words, repl)
    ELSE <<s[i]>> \o Substitute(s, i + 1, words, repl)

\* re.sub of "[^\d.]" by ""
OnlyDigitsAndDots(s) == SelectSeq(s, LAMBDA c : IsDigit(c) \/ c = ".")

\* replace({synonyms: "0", "[^\d.]": ""}, regex=True) on a cell: the missing value stays
Extracted(cell) ==
    IF cell.nan THEN cell
    ELSE Text(OnlyDigitsAndDots(Substitute(cell.text, 1, PriceSynonyms, <<"0">>)))

\* float(s) of a text of digits and dots succeeds: a digit, and one dot at most
IsFloat(s) ==
    /\ \E i \in DOMAIN s : IsDigit(s[i])
    /\ Cardinality({i \in DOMAIN s : s[i] = "."}) <= 1

ExtractedRow(row) ==
    [excl |-> Extracted(row.excl), incl |-> Extracted(row.incl), tax |-> Extracted(row.tax)]

RowCells(row) == {row.excl, row.incl, row.tax}

\* _parse_prices (line 201): the substituted columns as they are if a cell is
\* missing; else astype(float), which raises ValueError on a text that is no float
_parse_prices(df) ==
    LET extracted == [i \in DOMAIN df |-> ExtractedRow(df[i])]
    IN  IF \E i \in DOMAIN df : \E c \in RowCells(extracted[i]) : c.nan
        THEN [fn |-> "_parse_prices", kind |-> "returned", dtype |-> "object", value |-> extracted]
        ELSE IF \E i \in DOMAIN df : \E c \in RowCells(extracted[i]) : ~IsFloat(c.text)
        THEN [fn |-> "_parse_prices", kind |-> "raised", dtype |-> "none", value |-> "ValueError"]
        ELSE [fn |-> "_parse_prices", kind |-> "returned", dtype |-> "float", value |-> extracted]

\* the class of the pattern of _parse_currency
CurrencySymbols == {"$", "£", "€"}

\* str.extract(".*([$£€]).*") on a cell: the greedy ".*" leaves to the group the
\* last symbol of the text; no match and the missing value give the missing value
ExtractCurrency(cell) ==
    LET at == {i \in DOMAIN cell.text : cell.text[i] \in CurrencySymbols}
    IN  IF cell.nan \/ at = {} THEN NaN
        ELSE Text(<<cell.text[CHOOSE i \in at : \A j \in at : j <= i]>>)

\* _parse_currency (line 213): the column of the symbols of "Price (incl. tax)"
_parse_currency(df) ==
    [fn |-> "_parse_currency", kind |-> "returned", dtype |-> "object",
     value |-> [i \in DOMAIN df |-> ExtractCurrency(df[i].incl)]]

\* str.upper() of one character
UpperChar(c) ==
    IF \E i \in DOMAIN LowerLetters : LowerLetters[i] = c
    THEN UpperLetters[CHOOSE i \in DOMAIN LowerLetters : LowerLetters[i] = c]
    ELSE c

RECURSIVE CaseVariants(_)
\* the spellings of a word in every letter case
CaseVariants(w) ==
    IF w = <<>> THEN {<<>>}
    ELSE {<<c>> \o t : c \in {w[1], UpperChar(w[1])}, t \in CaseVariants(Tail(w))}

\* the strings a rating is drawn from: the five words in every letter case, and
\* "", "on", "ones", " one", "six", "3"
Ratings ==
    UNION {CaseVariants(RatingWords[i]) : i \in DOMAIN RatingWords}
    \cup {<<>>, <<"o", "n">>, <<"o", "n", "e", "s">>, <<" ", "o", "n", "e">>,
          <<"s", "i", "x">>, <<"3">>}

\* the arguments of the calls: a DataFrame, a rating string, or a rating that is
\* no string (the missing value)
Args ==
    {[kind |-> "DataFrame", value |-> df] : df \in Frames}
    \cup {[kind |-> "str", value |-> r] : r \in Ratings}
    \cup {[kind |-> "float", value |-> <<>>]}

\* a call of _parse_prices(df)
ParsePrices ==
    /\ out = NoCall
    /\ arg.kind = "DataFrame"
    /\ out' = _parse_prices(arg.value)
    /\ UNCHANGED <<arg, scrape_vars, session_vars>>

\* a call of _parse_currency(df)
ParseCurrency ==
    /\ out = NoCall
    /\ arg.kind = "DataFrame"
    /\ out' = _parse_currency(arg.value)
    /\ UNCHANGED <<arg, scrape_vars, session_vars>>

\* a call of _convert_rating(rating) (lines 170-189): TypeError for what is no
\* string, ValueError for a string that matches no case
ConvertRating ==
    /\ out = NoCall
    /\ arg.kind \in {"str", "float"}
    /\ out' = IF arg.kind # "str"
              THEN [fn |-> "_convert_rating", kind |-> "raised", dtype |-> "none", value |-> "TypeError"]
              ELSE IF ConvertRatingRaises(arg.value)
              THEN [fn |-> "_convert_rating", kind |-> "raised", dtype |-> "none", value |-> "ValueError"]
              ELSE [fn |-> "_convert_rating", kind |-> "returned", dtype |-> "float",
                    value |-> _convert_rating(arg.value)]
    /\ UNCHANGED <<arg, scrape_vars, session_vars>>

NormInit ==
    /\ NotScraping
    /\ _connector = "None"
    /\ _session = NoSession
    /\ log = <<>>
    /\ arg \in Args
    /\ out = NoCall

NormNext ==
    \/ ParsePrices
    \/ ParseCurrency
    \/ ConvertRating

NormSpec == NormInit /\ [][NormNext]_vars

Next ==
    \/ \E c \in Names : Scrape(c)
    \/ \E e \in FetchErrors : IndexFails(e)
    \/ \E m \in IndexPages : IndexResponse(m)
    \/ \E e \in FetchErrors : FirstPageFails(e)
    \/ \E m \in ListingPages : FirstPageResponse(m)
    \/ \E i \in 1..MaxPages, m \in CohortPages : PageFetched(i, m)
    \/ \E i \in 1..MaxPages, e \in FetchErrors : PageFailed(i, e)
    \/ \E i \in 1..MaxPages : PageCancelled(i)
    \/ PagesJoin
    \/ ScrapeContinues
    \/ \E i \in 1..MaxProducts, m \in DetailPages : DetailFetched(i, m)
    \/ \E i \in 1..MaxProducts, e \in FetchErrors : DetailFailed(i, e)
    \/ \E i \in 1..MaxProducts : DetailCancelled(i)
    \/ DetailsJoin
    \/ \E fmt \in Formats : SaveDataPropagates(fmt)
    \/ \E fmt \in Formats, o \in Toggles : SaveData(fmt, o)

Spec == Init /\ [][Next]_vars

(***************************************************************************)
(* The properties.                                                         *)
(***************************************************************************)
\* the members of a sequence
Elems(q) == {q[i] : i \in DOMAIN q}

\* the indicator "Page 1 of <n>"
PageIndicator(n) == [present |-> TRUE, text |-> S_page_of \o Decimal(n)]

\* the diagnostics of the except* clauses
ClauseDiagnostics == {Handlers[i].diagnostic : i \in DOMAIN Handlers}

\* C1: when _collect_paths returns after a listing cohort with a failed member, the
\* list it returns is exactly the product paths of the first listing page, in page
\* order, whatever the other members brought back, and nothing is raised
C1_FailedCohortKeepsFirstPage ==
    (pc = "collected" /\ AnyFailed(page_tasks)) =>
        /\ paths = [i \in DOMAIN markup.products |-> PySliceFrom(markup.products[i].href, 9)]
        /\ exc = NoError

\* C1 witness: _collect_paths has returned after a cohort of two, the first member
\* finished with a product and the second failed
C1_Witness ==
    /\ pc = "collected"
    /\ Len(page_tasks) = 2
    /\ page_tasks[1].st = "done"
    /\ page_tasks[1].body.products # <<>>
    /\ page_tasks[2].st = "failed"
    /\ paths # <<>>

\* C2: when every fetch of a cohort succeeded and parsing a result raises, the join
\* raises nothing, prints a diagnostic and takes none of the cohort's results: the
\* accumulator is the first page's paths, and scrape returns no records
C2_ParseErrorIsCaught ==
    [][/\ (/\ pc = "pages"
           /\ AllTerminated(page_tasks)
           /\ ~AnyFailed(page_tasks)
           /\ \E i \in DOMAIN page_tasks : ProductPathsRaises(page_tasks[i].body))
          => (/\ pc' = "collected"
              /\ exc' = NoError
              /\ paths' = results
              /\ Len(diagnostics') > Len(diagnostics))
       /\ (/\ pc = "details"
           /\ AllTerminated(detail_tasks)
           /\ ~AnyFailed(detail_tasks)
           /\ \E i \in DOMAIN detail_tasks : ProductInfoRaises(detail_tasks[i].body) # "none")
          => (/\ pc' = "returned"
              /\ exc' = NoError
              /\ ret'.kind = "None"
              /\ Len(diagnostics') > Len(diagnostics))]_vars

\* C3: no exception of a fetch ever leaves scrape
C3_NoFetchErrorLeavesScrape == exc.type \notin FetchErrors

\* C3, amended: a failed fetch of the listing cohort or of the detail cohort is
\* taken by an except* clause, which prints its diagnostic, and _collect_paths or
\* scrape returns; the exception of a fetch leaves scrape only when the fetch is
\* that of the index page or of the first listing page, made outside the cohorts
C3_CohortFetchErrorsAreCaught ==
    /\ (pc = "collected" /\ AnyFailed(page_tasks)) =>
            (exc = NoError /\ Elems(diagnostics) \cap ClauseDiagnostics # {})
    /\ (pc = "returned" /\ AnyFailed(detail_tasks)) =>
            (exc = NoError /\ Elems(diagnostics) \cap ClauseDiagnostics # {})
    /\ pc = "raised" => (~AnyFailed(page_tasks) /\ ~AnyFailed(detail_tasks))
    /\ (pc = "raised" /\ exc.type \in FetchErrors) =>
            /\ page_tasks = <<>>
            /\ detail_tasks = <<>>
            /\ requests \in {<<IndexPath>>, <<IndexPath, FirstPagePath(path_to_category)>>}
    /\ (pc = "raised" /\ Len(requests) > 2) => exc.type \notin FetchErrors

\* C3 witness: scrape has returned after a detail cohort whose second member failed
\* while its first member finished
C3_Witness ==
    /\ pc = "returned"
    /\ Len(detail_tasks) = 2
    /\ detail_tasks[1].st = "done"
    /\ detail_tasks[2].st = "failed"
    /\ exc = NoError
    /\ diagnostics # <<>>

\* C4: for an indicator "Page 1 of N", N >= 1, _get_page_count yields 2..N and
\* _collect_paths requests each of the pages 2..N once, after the index page and
\* the first listing page
C4_OneFetchPerPage ==
    \A n \in PageTotals :
        (pc \in {"pages", "collected"} /\ markup.pager = PageIndicator(n)) =>
            /\ page_count = [i \in 1..(n - 1) |-> i + 1]
            /\ Len(requests) = n + 1
            /\ \A i \in 1..(n - 1) : requests[i + 2] = PagePath(path_to_category, i + 1)

\* C5: when a member of the detail cohort has failed, the join raises nothing and
\* scrape returns no record, also none of a member that finished; save_data then
\* returns the empty table and runs no normalization step
C5_FailedDetailCohortYieldsNothing ==
    [][/\ (pc = "details" /\ AnyFailed(detail_tasks) /\ pc' # "details") =>
              (pc' = "returned" /\ exc' = NoError /\ ret'.kind = "None" /\ ret'.list = <<>>)
       /\ (pc = "returned" /\ AnyFailed(detail_tasks)) =>
              /\ ret.kind = "None"
              /\ pc' = "saved" =>
                     /\ saved'.state = "returned"
                     /\ saved'.value = "DataFrame"
                     /\ saved'.rows = <<>>
                     /\ saved'.steps = <<>>
                     /\ saved'.written = "none"]_vars

\* C5 witness: save_data has returned the empty table after a scrape that collected
\* two paths and returned None with the diagnostic of a failed cohort
C5_Witness ==
    /\ pc = "saved"
    /\ Len(paths) = 2
    /\ Len(requests) = Len(paths) + 2
    /\ ret.kind = "None"
    /\ "The HTTP Error" \in Elems(diagnostics)
    /\ saved.state = "returned"
    /\ saved.value = "DataFrame"
    /\ saved.rows = <<>>

\* C6: when every detail fetch succeeded, scrape returns one record for each
\* collected path, in the order of the paths and with the URL of its path, equal
\* paths included, and save_data(category, "df") then returns a table with rows;
\* stated for detail pages that have their title, rating and attribute table
C6_OneRecordPerPath ==
    /\ (/\ pc = "returned"
        /\ detail_tasks # <<>>
        /\ \A i \in DOMAIN detail_tasks :
               detail_tasks[i].st = "done" /\ detail_tasks[i].body = FullPage)
       => /\ ret.kind = "list"
          /\ Len(ret.list) = Len(paths)
          /\ \A i \in DOMAIN ret.list :
                 /\ ~ret.list[i].none
                 /\ DictGet(ret.list[i].rec, "URL") = base_url \o paths[i]
    /\ (/\ pc = "saved"
        /\ ret.kind = "list"
        /\ saved.fmt = "df"
        /\ \A i \in DOMAIN ret.list :
               ~ret.list[i].none /\ Len(ret.list[i].rec) = 3 + Len(TableRows))
       => (saved.state = "returned" /\ Len(saved.rows) = Len(paths))

\* C7: when every fetch of the listing cohort succeeded, _collect_paths returns the
\* paths of the first page followed by those of the pages 2..N in page order, for
\* the N of the indicator "Page 1 of N"
C7_AllPagesInOrder ==
    \A n \in PageTotals :
        (pc = "collected" /\ markup.pager = PageIndicator(n) /\ ~AnyFailed(page_tasks)) =>
            /\ Len(page_tasks) = n - 1
            /\ paths = Extended(_parse_product_paths(markup), page_tasks)

\* the case fold of a category name, over the characters of the names
FoldName(c) == [i \in DOMAIN c |-> IF c[i] = "A" THEN "a" ELSE c[i]]

\* _collect_paths has looked the category up in the dict of the index page
LookedUp ==
    /\ pc \in {"first", "raised"}
    /\ category # <<>>
    /\ ~(exc.type \in FetchErrors /\ Len(requests) = 1)

NotFoundError == [type |-> "ValueError", msg |-> "Not found the category"]

\* the lookup went on with path p: the first listing page of p is requested
ResolvedTo(p) ==
    /\ exc # NotFoundError
    /\ path_to_category = p
    /\ requests = <<IndexPath, FirstPagePath(p)>>

\* C8: the keys of the category dict M are case-folded; the lookup of c resolves to
\* M[lower(c)] when lower(c) is a key of M, and fails with the not-found error
\* exactly when lower(c) is no key of M
C8_ResolvesExactlyKeys ==
    LookedUp =>
        /\ \A i \in DOMAIN category_paths : category_paths[i].k = FoldName(category_paths[i].k)
        /\ IF DictHas(category_paths, FoldName(category))
           THEN ResolvedTo(DictGet(category_paths, FoldName(category)))
           ELSE pc = "raised" /\ exc = NotFoundError

\* C8, amended: the lookup of c resolves to M[lower(c)] when lower(c) is a key of M
\* and M[lower(c)] is not the empty path; it fails with the not-found error exactly
\* when lower(c) is no key of M or M[lower(c)] is the empty path
C8_ResolvesKeysOfNonEmptyPath ==
    LookedUp =>
        /\ \A i \in DOMAIN category_paths : category_paths[i].k = FoldName(category_paths[i].k)
        /\ IF /\ DictHas(category_paths, FoldName(category))
              /\ DictGet(category_paths, FoldName(category)) # <<>>
           THEN ResolvedTo(DictGet(category_paths, FoldName(category)))
           ELSE pc = "raised" /\ exc = NotFoundError

\* C8 witness: the name "A" is resolved through the key "a" of the dict
C8_Witness ==
    /\ pc = "first"
    /\ category = <<"A">>
    /\ Len(category_paths) = 1
    /\ category_paths[1].k = <<"a">>
    /\ path_to_category = category_paths[1].v
    /\ path_to_category # <<>>

\* C9: when the folded name is no key of the dict of the index page, the lookup
\* raises the not-found error to the caller; and whenever that error is raised,
\* the index page is the one request of the invocation, nothing was collected or
\* returned, and save_data passes the error on
C9_NotFoundAfterOneFetch ==
    /\ (LookedUp /\ ~DictHas(category_paths, FoldName(category))) =>
            (pc = "raised" /\ exc = NotFoundError)
    /\ exc.msg = NotFoundError.msg =>
            /\ exc = NotFoundError
            /\ pc \in {"raised", "saved"}
            /\ requests = <<IndexPath>>
            /\ paths = <<>>
            /\ page_tasks = <<>>
            /\ detail_tasks = <<>>
            /\ ret = NoReturn
            /\ pc = "saved" => (saved.state = "raised" /\ saved.exc = NotFoundError)

\* C9 witness: the not-found error is raised for the name "a" on a dict whose one
\* key is "aa"
C9_Witness ==
    /\ pc = "raised"
    /\ exc = NotFoundError
    /\ category = <<"a">>
    /\ Len(category_paths) = 1
    /\ category_paths[1].k = <<"a", "a">>
    /\ requests = <<IndexPath>>

UnsupportedFormat == [type |-> "ValueError", msg |-> "Unsupported format"]

\* C10: whenever scrape has returned, a save_data whose fmt is none of "df", "csv"
\* and "excel" raises the unsupported-format error
C10_UnsupportedFormatFails ==
    (pc = "saved" /\ exc = NoError /\ saved.fmt \notin {"df", "csv", "excel"}) =>
        (saved.state = "raised" /\ saved.exc = UnsupportedFormat)

\* C10, amended: a save_data whose fmt is none of "df", "csv" and "excel" writes
\* nothing and, when scrape returned records, raises: the unsupported-format error
\* once the table is built and the steps asked for have run, else the error of
\* DataFrame(data) or of the step that raised; when scrape returned no records it
\* returns the empty table, and when scrape raised, that exception passes through
C10_UnsupportedFormatFailsOnData ==
    (pc = "saved" /\ saved.fmt \notin {"df", "csv", "excel"}) =>
        /\ saved.written = "none"
        /\ IF exc # NoError
           THEN saved.state = "raised" /\ saved.exc = exc
           ELSE IF ret.kind = "None" \/ ret.list = <<>>
           THEN saved.state = "returned" /\ saved.value = "DataFrame" /\ saved.rows = <<>>
           ELSE /\ saved.state = "raised"
                /\ saved.value = "none"
                /\ IF saved.exc.msg = "DataFrame" THEN \E i \in DOMAIN ret.list : ret.list[i].none
                   ELSE IF saved.exc.msg \in {"Rating", "Currency", "Prices", "Availability"}
                   THEN saved.exc.type \in {"KeyError", "ValueError"}
                   ELSE /\ saved.exc = UnsupportedFormat
                        /\ saved.rows = ret.list

\* C10 witness: save_data with fmt "json" has built the table of a record, run a
\* step and raised the unsupported-format error
C10_Witness ==
    /\ pc = "saved"
    /\ saved.fmt = "json"
    /\ saved.rows # <<>>
    /\ saved.steps # <<>>
    /\ saved.state = "raised"
    /\ saved.exc = UnsupportedFormat

\* C11: on one instance, every exit leaves the session closed, close() is called
\* at most once on a session, and an entry leaves an open session, on which a
\* fetch gets its response, also after an earlier scope has closed the session
C11_SessionReleasedOnceAndReacquired ==
    /\ (log # <<>> /\ log[Len(log)].op = "exit") =>
            (_session # NoSession /\ Closed(_session, _connector))
    /\ _session # NoSession => _session.closes <= 1
    /\ (log # <<>> /\ log[Len(log)].op = "enter") => ~Closed(_session, _connector)
    /\ \A i \in 2..Len(log) :
           (log[i].op = "fetch" /\ log[i - 1].op = "enter") => log[i].did = "response"

\* the diagnostic that names the class of a failed fetch
DiagnosticOf(e) ==
    CASE e = "ClientResponseError" -> "The HTTP Error"
      [] e = "ConnectionTimeoutError" -> "The timeout is reached"

\* C12: the diagnostics of a failed cohort are those of the classes of its failed
\* members: "The HTTP Error" for an HTTP status error, "The timeout is reached"
\* for a timeout, and no other
C12_DiagnosticNamesTheCause ==
    /\ (pc = "collected" /\ AnyFailed(page_tasks)) =>
            Elems(diagnostics) \cap ClauseDiagnostics
                = {DiagnosticOf(e) : e \in GroupExceptions(page_tasks)}
    /\ (pc = "returned" /\ AnyFailed(detail_tasks) /\ Len(diagnostics) = 1) =>
            Elems(diagnostics) = {DiagnosticOf(e) : e \in GroupExceptions(detail_tasks)}

\* a price cell parses as a decimal after the substitutions
ParsesAsDecimal(cell) == ~cell.nan /\ IsFloat(Extracted(cell).text)

\* C13: when a cell of the three price columns does not parse as a decimal after
\* the substitutions, _parse_prices raises nothing and returns the three columns
\* with every cell as it was given
C13_UnparsablePricesReturnedUnchanged ==
    (/\ out.fn = "_parse_prices"
     /\ \E i \in DOMAIN arg.value : \E c \in RowCells(arg.value[i]) : ~ParsesAsDecimal(c))
    => (out.kind = "returned" /\ out.dtype = "object" /\ out.value = arg.value)

\* the leftmost currency symbol of a cell, the missing value if it has none
FirstCurrency(cell) ==
    LET at == {i \in DOMAIN cell.text : cell.text[i] \in {"$", "£", "€"}}
    IN  IF cell.nan \/ at = {} THEN NaN
        ELSE Text(<<cell.text[CHOOSE i \in at : \A j \in at : i <= j]>>)

\* C16: _parse_currency raises nothing and yields, for every row, the leftmost of
\* the symbols $, £, € of its "Price (incl. tax)" text, and the missing value for
\* a text without symbol
C16_FirstCurrencySymbol ==
    out.fn = "_parse_currency" =>
        /\ out.kind = "returned"
        /\ Len(out.value) = Len(arg.value)
        /\ \A i \in DOMAIN arg.value : out.value[i] = FirstCurrency(arg.value[i].incl)

\* the five rating words, by their value
WordOf(k) ==
    CASE k = 1 -> <<"o", "n", "e">>
      [] k = 2 -> <<"t", "w", "o">>
      [] k = 3 -> <<"t", "h", "r", "e", "e">>
      [] k = 4 -> <<"f", "o", "u", "r">>
      [] k = 5 -> <<"f", "i", "v", "e">>

\* s spells the word w, whatever the case of its letters
Spells(s, w) ==
    /\ Len(s) = Len(w)
    /\ \A i \in DOMAIN w : s[i] = w[i] \/ s[i] = UpperChar(w[i])

\* C17: _convert_rating returns k.0 for a string that spells the k-th of the words
\* one, two, three, four, five in any letter case, raises ValueError for every
\* other string, and returns nothing but 1.0 .. 5.0
C17_RatingWordsToFloats ==
    (out.fn = "_convert_rating" /\ arg.kind = "str") =>
        /\ \A k \in 1..5 :
               Spells(arg.value, WordOf(k)) =>
                   (out.kind = "returned" /\ out.dtype = "float" /\ out.value = k)
        /\ (\A k \in 1..5 : ~Spells(arg.value, WordOf(k))) =>
               (out.kind = "raised" /\ out.value = "ValueError")
        /\ out.kind = "returned" => out.value \in 1..5

\* C17 witness: _convert_rating("tHrEe") has returned 3.0
C17_Witness ==
    /\ out.fn = "_convert_rating"
    /\ arg.kind = "str"
    /\ arg.value = <<"t", "H", "r", "E", "e">>
    /\ out.kind = "returned"
    /\ out.value = 3

\* the paths of the product anchors of a listing page, in page order
PathsOn(m) == [i \in DOMAIN m.products |-> PySliceFrom(m.products[i].href, 9)]

\* C14: requests are issued at four points only, each reached once in an
\* invocation: the index page, the first listing page, one request per page number
\* of the cohort, one request per element of the collected list (an element for
\* each anchor, so a path that two anchors carry is requested for both); nothing is
\* requested again, neither a page of a failed listing cohort nor, after scrape is
\* over, a path of a failed detail cohort
C14_NoRetry ==
    [][requests' # requests =>
          \/ /\ pc = "idle"
             /\ requests' = Append(requests, IndexPath)
          \/ /\ pc = "index"
             /\ pc' = "first"
             /\ requests' = Append(requests, FirstPagePath(path_to_category'))
          \/ /\ pc = "first"
             /\ pc' = "pages"
             /\ \A i, j \in DOMAIN page_count' : page_count'[i] = page_count'[j] => i = j
             /\ requests' = requests \o [i \in DOMAIN page_count' |->
                                            PagePath(path_to_category, page_count'[i])]
          \/ /\ pc = "collected"
             /\ pc' = "details"
             /\ Len(detail_tasks') = Len(paths)
             /\ requests' = requests \o paths
             /\ \A i \in DOMAIN paths, j \in DOMAIN page_count :
                    paths[i] # PagePath(path_to_category, page_count[j])]_vars

\* C14 witness: scrape has returned after a failed listing cohort of one page and a
\* failed detail cohort of one product, four requests in all
C14_Witness ==
    /\ pc = "returned"
    /\ AnyFailed(detail_tasks)
    /\ Len(detail_tasks) = 1
    /\ Len(diagnostics) = 2
    /\ Len(requests) = 4

\* the keys of a record
Keys(rec) == {rec[j].k : j \in DOMAIN rec}

\* C15: every element of the list scrape returns is a record with the keys
\* Product name, URL and Rating, the rating being the second class token of the
\* star-rating element; for a page without attribute table these are its only keys
C15_RecordsHaveTheBaseKeys ==
    (pc = "returned" /\ ret.kind = "list") =>
        \A i \in DOMAIN ret.list :
            LET page == detail_tasks[tasks[i].v].body
            IN  /\ ~ret.list[i].none
                /\ {"Product name", "URL", "Rating"} \subseteq Keys(ret.list[i].rec)
                /\ DictGet(ret.list[i].rec, "Rating") = page.star_class[2]
                /\ ~page.has_table => Keys(ret.list[i].rec) = {"Product name", "URL", "Rating"}

\* C18: without pagination indicator on the first listing page, _collect_paths
\* launches no cohort and returns exactly the paths of that page, in page order,
\* after two requests: the index page and the first listing page
C18_NoIndicatorNoCohort ==
    /\ pc = "pages" => markup.pager.present
    /\ (pc = "collected" /\ ~markup.pager.present) =>
            /\ paths = PathsOn(markup)
            /\ page_count = <<>>
            /\ page_tasks = <<>>
            /\ requests = <<IndexPath, FirstPagePath(path_to_category)>>
            /\ exc = NoError

\* C18 witness: _collect_paths has returned the two paths of a first listing page
\* without indicator
C18_Witness ==
    /\ pc = "collected"
    /\ ~markup.pager.present
    /\ Len(markup.products) = 2
    /\ paths = PathsOn(markup)
    /\ Len(requests) = 2

\* C19: after a listing cohort with a failed member, scrape launches the detail
\* cohort for exactly the paths of the first listing page, and when every detail
\* fetch of it has succeeded it returns one record for each of those paths;
\* stated for detail pages that have their title, rating and attribute table
C19_CrawlGoesOnAfterFailedCohort ==
    [][/\ (pc = "collected" /\ AnyFailed(page_tasks) /\ paths # <<>>) =>
              /\ paths = PathsOn(markup)
              /\ pc' = "details"
              /\ Len(detail_tasks') = Len(paths)
              /\ requests' = requests \o paths
       /\ (/\ pc = "returned"
           /\ Elems(diagnostics) \cap ClauseDiagnostics # {}
           /\ detail_tasks # <<>>
           /\ \A i \in DOMAIN detail_tasks :
                  detail_tasks[i].st = "done" /\ detail_tasks[i].body = FullPage) =>
              /\ ret.kind = "list"
              /\ Len(ret.list) = Len(paths)
              /\ \A i \in DOMAIN ret.list : ~ret.list[i].none]_vars

\* C20: when _collect_paths returns an empty list it has printed the diagnostic of
\* the missing paths and raised nothing; scrape then returns None without a
\* request, and save_data returns the empty table
C20_EmptyCrawlYieldsEmptyTable ==
    [][/\ (pc = "collected" /\ paths = <<>>) =>
              /\ exc = NoError
              /\ diagnostics # <<>>
              /\ diagnostics[Len(diagnostics)]
                     = "Paths to products of the specified category are not found"
              /\ pc' = "returned"
              /\ exc' = NoError
              /\ ret'.kind = "None"
              /\ requests' = requests
              /\ detail_tasks' = <<>>
       /\ (pc = "returned" /\ paths = <<>>) =>
              /\ requests' = requests
              /\ pc' = "saved" =>
                     /\ saved'.state = "returned"
                     /\ saved'.value = "DataFrame"
                     /\ saved'.rows = <<>>
                     /\ saved'.steps = <<>>]_vars

\* C20 witness: save_data has returned the empty table for a category of two
\* listing pages without products, after three requests
C20_Witness ==
    /\ pc = "saved"
    /\ paths = <<>>
    /\ exc = NoError
    /\ Len(requests) = 3
    /\ diagnostics = <<"Paths to products of the specified category are not found",
                       "The scrape() method didn't return data">>
    /\ saved.state = "returned"
    /\ saved.value = "DataFrame"

\* a fetch of the cohort is in flight
InFlight(ts) == \E i \in DOMAIN ts : ts[i].st = "pending"

\* C21: while a member of a cohort is pending, nothing of the cohort is reported or
\* aggregated and the operation does not go on: the diagnostics, the accumulator,
\* the returned list and the position stay as they are; outside the join of its
\* cohort no member is pending, and the detail cohort is launched from the return
\* of _collect_paths, where every member of the listing cohort has terminated
C21_CohortsAreJoinedFirst ==
    [][/\ (pc = "pages" /\ InFlight(page_tasks)) =>
              /\ pc' = "pages"
              /\ UNCHANGED <<diagnostics, results, paths, ret, exc, requests, detail_tasks>>
       /\ (pc = "details" /\ InFlight(detail_tasks)) =>
              /\ pc' = "details"
              /\ UNCHANGED <<diagnostics, paths, ret, exc, requests>>
       /\ pc # "pages" => ~InFlight(page_tasks)
       /\ pc # "details" => ~InFlight(detail_tasks)
       /\ (detail_tasks = <<>> /\ detail_tasks' # <<>>) =>
              /\ pc = "collected"
              /\ ~InFlight(page_tasks)
              /\ \A i \in DOMAIN detail_tasks' : detail_tasks'[i].st = "pending"]_vars

\* C21 witness: _collect_paths has returned after a listing cohort of two members,
\* one failed and one cancelled, with the diagnostic of the failure
C21_Witness ==
    /\ pc = "collected"
    /\ Len(page_tasks) = 2
    /\ \E i, j \in DOMAIN page_tasks :
           page_tasks[i].st = "failed" /\ page_tasks[j].st = "cancelled"
    /\ Elems(diagnostics) \cap ClauseDiagnostics # {}

====
